---- MODULE Spec2Model ----
(***************************************************************************)
(* A model of the Bolt codec of bolt-rs: the value and message codec       *)
(* (bolt-proto/src/value.rs, bolt-proto/src/message.rs), the chunked       *)
(* framer (Message::from_stream and TryInto<Vec<Bytes>>), the client       *)
(* handshake (rust-bolt/src/client.rs) and the shared decode cursor        *)
(* (Arc<Mutex<Bytes>>).  Bytes are the integers 0..255, byte strings are   *)
(* sequences of bytes.                                                     *)
(***************************************************************************)
EXTENDS Integers, Sequences, FiniteSets, TLC

VARIABLES
    \* ---- the chunked framer: one byte pipe, a writer and a reader
    sent,       \* what the writer was asked to send, in order (history)
    framed,     \* the chunk list the last TryInto<Vec<Bytes>> returned
    pending,    \* the chunks of the current message not yet written
    wire,       \* bytes written to the pipe and not yet read
    closed,     \* the writing end was dropped (reads past the end fail)
    rpc,        \* where the reader is inside Message::from_stream
    bytes,      \* from_stream's accumulator (BytesMut)
    chunk_len,  \* from_stream's chunk_len
    taken,      \* bytes the running from_stream call has consumed
    results,    \* what the successive from_stream calls returned
    used,       \* bytes each returned call consumed (history)
    \* ---- Message::try_from on a byte buffer
    input,      \* the buffer handed to Message::try_from
    output,     \* what it returned
    \* ---- Client (rust-bolt)
    cpc,        \* where the client is: inside handshake, inside init, idle
    sock_out,   \* every byte the client wrote to the TcpStream, in order
    sock_in,    \* bytes the server sent that the client has not read
    peer_closed,\* the server closed the connection
    log,        \* the client's I/O events, in order (history)
    hs,         \* what the handshake calls returned, in order
    \* ---- the shared decode cursor Arc<Mutex<Bytes>>
    cursor,     \* the Bytes behind the mutex (the unread remainder)
    lock,       \* who holds the mutex between two steps: "none" or "other"
    dpc,        \* where the decoding thread is
    marker,     \* the decoder's local: the marker it read
    signature_read, \* the decoder's local: the signature it read
    dres,       \* what the decode returned
    intruded    \* the other thread held the mutex inside the decode (history)

framer_vars == <<sent, framed, pending, wire, closed, rpc, bytes, chunk_len,
                 taken, results, used>>
decode_vars == <<input, output>>
client_vars == <<cpc, sock_out, sock_in, peer_closed, log, hs>>
cursor_vars == <<cursor, lock, dpc, marker, signature_read, dres, intruded>>
vars == <<framer_vars, decode_vars, client_vars, cursor_vars>>

----------------------------------------------------------------------------
(* Bytes and big-endian integers (bytes::Buf / bytes::BufMut).             *)

Min(a, b) == IF a < b THEN a ELSE b

\* The element of a one-element set.  Only({ e(v) : v \in {x} }) is e of x
\* with x computed once: the local binding let v = x.
Only(S) == CHOOSE y \in S : TRUE

\* BufMut::put_u16: two bytes, big-endian.
PutU16(n) == << (n \div 256) % 256, n % 256 >>

\* BufMut::put_u32: four bytes, big-endian.
PutU32(n) == << (n \div 16777216) % 256, (n \div 65536) % 256,
                (n \div 256) % 256, n % 256 >>

\* Buf::get_u16 on the first two bytes of b.
GetU16(b) == b[1] * 256 + b[2]

\* Buf::get_u32 on the first four bytes of b (b[1] < 128 in every buffer of
\* this model, so that the value is a TLC integer).
GetU32(b) == ((b[1] * 256 + b[2]) * 256 + b[3]) * 256 + b[4]

\* `n as u16`: the cast keeps the low 16 bits.
AsU16(n) == n % 65536

\* The byte read as an unsigned integer.
AsU8(b) == b

\* `b as i8`: the byte read as a signed 8-bit integer.
AsI8(b) == IF b >= 128 THEN b - 256 ELSE b

\* The bytes after the first n.
Drop(b, n) == SubSeq(b, n + 1, Len(b))

\* The first n bytes.
Take(b, n) == SubSeq(b, 1, n)

\* n copies of byte c.
Repeat(c, n) == [i \in 1..n |-> c]

----------------------------------------------------------------------------
(* Values (bolt-proto/src/value.rs).  A value is a record whose tag names  *)
(* the variant of enum Value; strings and byte arrays are byte sequences,  *)
(* a map is a function from its keys (byte sequences) to values, a float   *)
(* is its eight IEEE-754 bytes and a structure value (Node, Relationship,  *)
(* Path, UnboundRelationship, Date, Time) is its signature and fields.     *)

NullV == [tag |-> "Null"]
BoolV(b) == [tag |-> "Boolean", val |-> b]
IntV(n) == [tag |-> "Integer", val |-> n]
\* An Integer outside the i32 range: its eight big-endian bytes (i64).
Int64V(b8) == [tag |-> "Integer", val |-> b8, wide |-> TRUE]
FloatV(bits) == [tag |-> "Float", val |-> bits]
BytesV(s) == [tag |-> "Bytes", val |-> s]
StrV(s) == [tag |-> "String", val |-> s]
ListV(l) == [tag |-> "List", val |-> l]
MapV(f) == [tag |-> "Map", val |-> f]
StructV(sig, fields) == [tag |-> "Structure", sig |-> sig, val |-> fields]

EmptyMap == MapV(<<>>)

\* Marker bytes.
MARKER_NULL == \hC0
MARKER_FLOAT == \hC1
MARKER_FALSE == \hC2
MARKER_TRUE == \hC3
MARKER_INT_8 == \hC8
MARKER_INT_16 == \hC9
MARKER_INT_32 == \hCA
MARKER_INT_64 == \hCB
BYTES_MARKER_SMALL == \hCC
BYTES_MARKER_MEDIUM == \hCD
BYTES_MARKER_LARGE == \hCE
STRING_MARKER_TINY == \h80
STRING_MARKER_SMALL == \hD0
STRING_MARKER_MEDIUM == \hD1
STRING_MARKER_LARGE == \hD2
LIST_MARKER_TINY == \h90
LIST_MARKER_SMALL == \hD4
LIST_MARKER_MEDIUM == \hD5
LIST_MARKER_LARGE == \hD6
MAP_MARKER_TINY == \hA0
MAP_MARKER_SMALL == \hD8
MAP_MARKER_MEDIUM == \hD9
MAP_MARKER_LARGE == \hDA
STRUCT_MARKER_TINY == \hB0
STRUCT_MARKER_SMALL == \hDC
STRUCT_MARKER_MEDIUM == \hDD

\* Signatures of the structure values, and the number of fields of each.
NODE_SIGNATURE == \h4E
RELATIONSHIP_SIGNATURE == \h52
PATH_SIGNATURE == \h50
UNBOUND_RELATIONSHIP_SIGNATURE == \h72
DATE_SIGNATURE == \h44
TIME_SIGNATURE == \h54

ValueStructSignatures ==
    {NODE_SIGNATURE, RELATIONSHIP_SIGNATURE, PATH_SIGNATURE,
     UNBOUND_RELATIONSHIP_SIGNATURE, DATE_SIGNATURE, TIME_SIGNATURE}

ValueStructFields(sig) ==
    CASE sig = NODE_SIGNATURE -> 3
      [] sig = RELATIONSHIP_SIGNATURE -> 5
      [] sig = PATH_SIGNATURE -> 3
      [] sig = UNBOUND_RELATIONSHIP_SIGNATURE -> 3
      [] sig = DATE_SIGNATURE -> 1
      [] sig = TIME_SIGNATURE -> 2

\* The low 0x0F of a byte, and the byte with its low nibble set to 0x0F.
LowNibble(b) == b % 16
SameByte(b) == b
OrLowNibble(b) == b - (b % 16) + 15

\* An integer of w bytes, big-endian two's complement.
RECURSIVE PutInt(_, _)
PutInt(n, w) ==
    IF w = 0 THEN <<>> ELSE Append(PutInt(n \div 256, w - 1), n % 256)

\* The first w bytes of b read as a signed big-endian integer.
RECURSIVE GetUInt(_, _)
GetUInt(b, w) ==
    IF w = 0 THEN 0 ELSE GetUInt(b, w - 1) * 256 + b[w]
GetInt(b, w) ==
    IF w = 1 THEN AsI8(b[1])
    ELSE AsI8(b[1]) * (2 ^ (8 * (w - 1))) + GetUInt(Drop(b, 1), w - 1)

----------------------------------------------------------------------------
(* Encoding of values (Serialize / TryInto<Bytes>).                        *)

\* The marker and length prefix of a sized value: the tiny form packs a
\* length of at most 15 into the marker, the others carry a u8, u16 or u32.
SizedHeader(tiny, small, medium, large, n) ==
    IF tiny >= 0 /\ n <= 15 THEN << tiny + n >>
    ELSE IF n <= 255 THEN << small, n >>
    ELSE IF n <= 65535 THEN << medium >> \o PutU16(n)
    ELSE << large >> \o PutU32(n)

EncodeInteger(n) ==
    IF n >= -16 /\ n <= 127 THEN << n % 256 >>
    ELSE IF n >= -128 /\ n <= 127 THEN << MARKER_INT_8 >> \o PutInt(n, 1)
    ELSE IF n >= -32768 /\ n <= 32767 THEN << MARKER_INT_16 >> \o PutInt(n, 2)
    ELSE << MARKER_INT_32 >> \o PutInt(n, 4)

RECURSIVE EncodeValue(_), EncodeList(_), EncodeEntries(_, _)
EncodeValue(v) ==
    CASE v.tag = "Null" -> << MARKER_NULL >>
      [] v.tag = "Boolean" -> IF v.val THEN << MARKER_TRUE >> ELSE << MARKER_FALSE >>
      [] v.tag = "Integer" ->
            IF "wide" \in DOMAIN v THEN << MARKER_INT_64 >> \o v.val
            ELSE EncodeInteger(v.val)
      [] v.tag = "Float" -> << MARKER_FLOAT >> \o v.val
      [] v.tag = "Bytes" ->
            SizedHeader(-1, BYTES_MARKER_SMALL, BYTES_MARKER_MEDIUM,
                        BYTES_MARKER_LARGE, Len(v.val)) \o v.val
      [] v.tag = "String" ->
            SizedHeader(STRING_MARKER_TINY, STRING_MARKER_SMALL,
                        STRING_MARKER_MEDIUM, STRING_MARKER_LARGE, Len(v.val))
            \o v.val
      [] v.tag = "List" ->
            SizedHeader(LIST_MARKER_TINY, LIST_MARKER_SMALL, LIST_MARKER_MEDIUM,
                        LIST_MARKER_LARGE, Len(v.val)) \o EncodeList(v.val)
      [] v.tag = "Map" ->
            SizedHeader(MAP_MARKER_TINY, MAP_MARKER_SMALL, MAP_MARKER_MEDIUM,
                        MAP_MARKER_LARGE, Cardinality(DOMAIN v.val))
            \o EncodeEntries(v.val, DOMAIN v.val)
      [] v.tag = "Structure" ->
            << STRUCT_MARKER_TINY + Len(v.val), v.sig >> \o EncodeList(v.val)
\* The items one after the other (the first half, then the second half).
EncodeList(l) ==
    IF l = <<>> THEN <<>>
    ELSE IF Len(l) = 1 THEN EncodeValue(l[1])
    ELSE EncodeList(Take(l, Len(l) \div 2))
         \o EncodeList(Drop(l, Len(l) \div 2))
\* The entries of a HashMap, in the order its iterator yields them.
EncodeEntries(f, keys) ==
    IF keys = {} THEN <<>>
    ELSE LET k == CHOOSE x \in keys : TRUE
         IN  EncodeValue(StrV(k)) \o EncodeValue(f[k])
             \o EncodeEntries(f, keys \ {k})

----------------------------------------------------------------------------
(* Decoding of values.  A decoder takes the unread bytes of the cursor and *)
(* returns a result: ok with the value and the bytes left unread, or an    *)
(* error with the bytes left unread where it stopped.                      *)

Ok(v, rest) == [err |-> "none", ok |-> TRUE, rest |-> rest, val |-> v]
Err(e, rest) == [err |-> e, ok |-> FALSE, rest |-> rest, val |-> NullV]

\* A panic that unwinds out of a function (Buf::get_u8, get_u16, advance or
\* split_to past the end of the buffer); rest is the cursor as the panic
\* leaves it.  It is no value of Result: the caller never sees it returned.
Unwinding(rest) == Err("unwind", rest)

\* A call without a panic catcher: the panic goes on to the caller.
PropagatePanic(r) == r

\* catch_unwind(closure).map_err(|_| ...Panicked...): a panic of the closure
\* comes back as the deserializer-panic error, anything else as it is.
CatchUnwind(r) == IF r.err = "unwind" THEN Err("Panicked", r.rest) ELSE r

\* std::str::from_utf8 accepts the bytes.
RECURSIVE WellFormedUtf8(_)
WellFormedUtf8(s) ==
    LET Cont(i) == i <= Len(s) /\ s[i] >= \h80 /\ s[i] <= \hBF
    IN  IF s = <<>> THEN TRUE
        ELSE IF s[1] <= \h7F THEN WellFormedUtf8(Drop(s, 1))
        ELSE IF s[1] >= \hC2 /\ s[1] <= \hDF
             THEN Cont(2) /\ WellFormedUtf8(Drop(s, 2))
        ELSE IF s[1] >= \hE0 /\ s[1] <= \hEF
             THEN /\ Cont(2) /\ Cont(3)
                  /\ (s[1] = \hE0 => s[2] >= \hA0)
                  /\ (s[1] = \hED => s[2] <= \h9F)
                  /\ WellFormedUtf8(Drop(s, 3))
        ELSE IF s[1] >= \hF0 /\ s[1] <= \hF4
             THEN /\ Cont(2) /\ Cont(3) /\ Cont(4)
                  /\ (s[1] = \hF0 => s[2] >= \h90)
                  /\ (s[1] = \hF4 => s[2] <= \h8F)
                  /\ WellFormedUtf8(Drop(s, 4))
        ELSE FALSE
IsUtf8(s) == (\A i \in 1..Len(s) : s[i] <= \h7F) \/ WellFormedUtf8(s)

\* The length a sized value announces and the bytes its header takes, read
\* at the cursor b whose first byte is the marker; width 0 is the tiny form.
HeaderWidth(m, small, medium, large) ==
    IF m = small THEN 1 ELSE IF m = medium THEN 2 ELSE IF m = large THEN 4 ELSE 0
HeaderSize(b, w) == IF w = 0 THEN LowNibble(b[1]) ELSE GetUInt(Drop(b, 1), w)

\* The eight bytes of an i64 hold a value of the i32 range: the high four
\* bytes are the sign extension of the low four.
FitsI32(b8) ==
    \/ b8[5] < 128 /\ \A i \in 1..4 : b8[i] = 0
    \/ b8[5] >= 128 /\ \A i \in 1..4 : b8[i] = 255

\* Integer::try_from on C8, C9, CA, CB: reading past the end panics.
IntegerTryFrom(b) ==
    LET w == CASE b[1] = MARKER_INT_8 -> 1 [] b[1] = MARKER_INT_16 -> 2
               [] b[1] = MARKER_INT_32 -> 4 [] b[1] = MARKER_INT_64 -> 8
    IN  IF Len(b) < 1 + w THEN Unwinding(Drop(b, 1))
        ELSE IF w < 8 THEN Ok(IntV(GetInt(Drop(b, 1), w)), Drop(b, 1 + w))
        ELSE IF FitsI32(SubSeq(b, 2, 9))
             THEN Ok(IntV(GetInt(SubSeq(b, 6, 9), 4)), Drop(b, 9))
        ELSE Ok(Int64V(SubSeq(b, 2, 9)), Drop(b, 9))

\* Float::try_from on C1.
FloatTryFrom(b) ==
    IF Len(b) < 9 THEN Unwinding(Drop(b, 1))
    ELSE Ok(FloatV(SubSeq(b, 2, 9)), Drop(b, 9))

\* ByteArray::try_from on CC, CD, CE.
ByteArrayTryFrom(b) ==
    LET w == HeaderWidth(b[1], BYTES_MARKER_SMALL, BYTES_MARKER_MEDIUM,
                         BYTES_MARKER_LARGE)
    IN  IF Len(b) < 1 + w THEN Unwinding(Drop(b, 1))
        ELSE LET n == HeaderSize(b, w)
             IN  IF Len(b) < 1 + w + n THEN Unwinding(Drop(b, 1 + w))
                 ELSE Ok(BytesV(SubSeq(b, 2 + w, 1 + w + n)), Drop(b, 1 + w + n))

\* String::try_from on 0x80..0x8F, D0, D1, D2.
StringTryFrom(b) ==
    LET w == HeaderWidth(b[1], STRING_MARKER_SMALL, STRING_MARKER_MEDIUM,
                         STRING_MARKER_LARGE)
    IN  IF Len(b) < 1 + w THEN Unwinding(Drop(b, 1))
        ELSE LET n == HeaderSize(b, w)
                 s == SubSeq(b, 2 + w, 1 + w + n)
             IN  IF Len(b) < 1 + w + n THEN Unwinding(Drop(b, 1 + w))
                 ELSE IF ~IsUtf8(s) THEN Err("InvalidString", Drop(b, 1 + w + n))
                 ELSE Ok(StrV(s), Drop(b, 1 + w + n))

RECURSIVE ValueTryFrom(_), DecodeItems(_, _, _), DecodeEntries(_, _, _)

\* List::try_from on 0x90..0x9F, D4, D5, D6.
ListTryFrom(b) ==
    LET w == HeaderWidth(b[1], LIST_MARKER_SMALL, LIST_MARKER_MEDIUM,
                         LIST_MARKER_LARGE)
    IN  IF Len(b) < 1 + w THEN Unwinding(Drop(b, 1))
        ELSE Only({ IF r.ok THEN Ok(ListV(r.val), r.rest) ELSE r :
                    r \in { DecodeItems(Drop(b, 1 + w), HeaderSize(b, w), <<>>) } })

\* Map::try_from on 0xA0..0xAF, D8, D9, DA.
MapTryFrom(b) ==
    LET w == HeaderWidth(b[1], MAP_MARKER_SMALL, MAP_MARKER_MEDIUM,
                         MAP_MARKER_LARGE)
    IN  IF Len(b) < 1 + w THEN Unwinding(Drop(b, 1))
        ELSE Only({ IF r.ok THEN Ok(MapV(r.val), r.rest) ELSE r :
                    r \in { DecodeEntries(Drop(b, 1 + w), HeaderSize(b, w), <<>>) } })

\* get_signature_from_bytes: skips the marker and reads the signature.
GetSignatureFromBytes(b) ==
    IF Len(b) < 2 THEN Unwinding(<<>>) ELSE Ok(IntV(b[2]), Drop(b, 2))

\* deserialize_structure: the signature selects the structure value, whose
\* fields are decoded in order.
DeserializeStructure(b) ==
    LET s == GetSignatureFromBytes(b)
    IN  IF ~s.ok THEN s
        ELSE IF s.val.val \in ValueStructSignatures
        THEN Only({ IF r.ok THEN Ok(StructV(s.val.val, r.val), r.rest) ELSE r :
                    r \in { DecodeItems(s.rest, ValueStructFields(s.val.val), <<>>) } })
        ELSE Err("InvalidSignatureByte", s.rest)

\* The closure of Value::try_from: peek the marker, then dispatch on it, the
\* arms in the order of the match.
ValueTryFromInner(b) ==
    IF b = <<>> THEN Unwinding(b)
    ELSE LET m == b[1]
         IN  IF m = MARKER_NULL THEN Ok(NullV, Drop(b, 1))
             ELSE IF m = MARKER_FALSE THEN Ok(BoolV(FALSE), Drop(b, 1))
             ELSE IF m = MARKER_TRUE THEN Ok(BoolV(TRUE), Drop(b, 1))
             ELSE IF AsI8(m) >= -16 /\ AsI8(m) <= 127
                  THEN Ok(IntV(AsI8(m)), Drop(b, 1))
             ELSE IF m \in {MARKER_INT_8, MARKER_INT_16, MARKER_INT_32, MARKER_INT_64}
                  THEN IntegerTryFrom(b)
             ELSE IF m = MARKER_FLOAT THEN FloatTryFrom(b)
             ELSE IF m \in {BYTES_MARKER_SMALL, BYTES_MARKER_MEDIUM, BYTES_MARKER_LARGE}
                  THEN ByteArrayTryFrom(b)
             ELSE IF m >= STRING_MARKER_TINY /\ m <= OrLowNibble(STRING_MARKER_TINY)
                  THEN StringTryFrom(b)
             ELSE IF m \in {STRING_MARKER_SMALL, STRING_MARKER_MEDIUM, STRING_MARKER_LARGE}
                  THEN StringTryFrom(b)
             ELSE IF m >= LIST_MARKER_TINY /\ m <= OrLowNibble(LIST_MARKER_TINY)
                  THEN ListTryFrom(b)
             ELSE IF m \in {LIST_MARKER_SMALL, LIST_MARKER_MEDIUM, LIST_MARKER_LARGE}
                  THEN ListTryFrom(b)
             ELSE IF m >= MAP_MARKER_TINY /\ m <= OrLowNibble(MAP_MARKER_TINY)
                  THEN MapTryFrom(b)
             ELSE IF m \in {MAP_MARKER_SMALL, MAP_MARKER_MEDIUM, MAP_MARKER_LARGE}
                  THEN MapTryFrom(b)
             ELSE IF m >= STRUCT_MARKER_TINY /\ m <= OrLowNibble(STRUCT_MARKER_TINY)
                  THEN DeserializeStructure(b)
             ELSE IF m \in {STRUCT_MARKER_SMALL, STRUCT_MARKER_MEDIUM}
                  THEN DeserializeStructure(b)
             ELSE Err("InvalidMarker", b)

\* Value::try_from: the closure under catch_unwind.
ValueTryFrom(b) ==
    Only({ CatchUnwind(ValueTryFromInner(input_arc)) : input_arc \in {b} })

\* n values decoded one after the other and appended to acc (the first
\* n \div 2 of them, then the others from where those ended).
DecodeItems(b, n, acc) ==
    IF n = 0 THEN Ok(acc, b)
    ELSE IF n = 1
    THEN Only({ IF r.ok THEN Ok(Append(a, r.val), r.rest) ELSE r :
                r \in { ValueTryFrom(b) }, a \in {acc} })
    ELSE Only({ IF r.ok THEN DecodeItems(r.rest, k - k \div 2, r.val) ELSE r :
                r \in { DecodeItems(b, n \div 2, acc) }, k \in {n} })

\* n map entries decoded one after the other: a key, which has to be a
\* String, then a value; a repeated key keeps the later value.
DecodeEntries(b, n, acc) ==
    IF n = 0 THEN Ok(acc, b)
    ELSE IF n = 1
    THEN Only({ IF ~k.ok THEN k
                ELSE IF k.val.tag # "String" THEN Err("Conversion", k.rest)
                ELSE Only({ IF ~v.ok THEN v
                            ELSE Ok([x \in (DOMAIN a) \cup {k.val.val} |->
                                        IF x = k.val.val THEN v.val ELSE a[x]],
                                    v.rest) :
                            v \in { ValueTryFrom(k.rest) } }) :
                k \in { ValueTryFrom(b) }, a \in {acc} })
    ELSE Only({ IF r.ok THEN DecodeEntries(r.rest, c - c \div 2, r.val) ELSE r :
                r \in { DecodeEntries(b, n \div 2, acc) }, c \in {n} })

----------------------------------------------------------------------------
(* Messages (bolt-proto/src/message.rs).  A message is a record: msg names *)
(* the variant of enum Message and val holds its fields in order.          *)

\* SIGNATURE of each message module.
INIT_SIGNATURE == \h01
HELLO_SIGNATURE == \h01
GOODBYE_SIGNATURE == \h02
ACK_FAILURE_SIGNATURE == \h0E
RESET_SIGNATURE == \h0F
RUN_SIGNATURE == \h10
RUN_WITH_METADATA_SIGNATURE == \h10
BEGIN_SIGNATURE == \h11
COMMIT_SIGNATURE == \h12
ROLLBACK_SIGNATURE == \h13
DISCARD_ALL_SIGNATURE == \h2F
DISCARD_SIGNATURE == \h2F
PULL_ALL_SIGNATURE == \h3F
PULL_SIGNATURE == \h3F
SUCCESS_SIGNATURE == \h70
RECORD_SIGNATURE == \h71
IGNORED_SIGNATURE == \h7E
FAILURE_SIGNATURE == \h7F

\* MARKER of the four message modules the decoder compares a marker with:
\* the tiny structure marker with the variant's number of fields.
INIT_MARKER == STRUCT_MARKER_TINY + 2
RUN_MARKER == STRUCT_MARKER_TINY + 2
DISCARD_ALL_MARKER == STRUCT_MARKER_TINY + 0
PULL_ALL_MARKER == STRUCT_MARKER_TINY + 0

MessageNames ==
    {"Init", "Run", "DiscardAll", "PullAll", "AckFailure", "Reset", "Record",
     "Success", "Failure", "Ignored", "Hello", "Goodbye", "RunWithMetadata",
     "Begin", "Commit", "Rollback", "Discard", "Pull"}

\* A get_signature that answers with the signature of Run for every variant.
GetSignatureOfRun(name) == RUN_SIGNATURE

\* Signature::get_signature of each variant.
GetSignature(name) ==
    CASE name = "Init" -> INIT_SIGNATURE
      [] name = "Run" -> RUN_SIGNATURE
      [] name = "DiscardAll" -> DISCARD_ALL_SIGNATURE
      [] name = "PullAll" -> PULL_ALL_SIGNATURE
      [] name = "AckFailure" -> ACK_FAILURE_SIGNATURE
      [] name = "Reset" -> RESET_SIGNATURE
      [] name = "Record" -> RECORD_SIGNATURE
      [] name = "Success" -> SUCCESS_SIGNATURE
      [] name = "Failure" -> FAILURE_SIGNATURE
      [] name = "Ignored" -> IGNORED_SIGNATURE
      [] name = "Hello" -> HELLO_SIGNATURE
      [] name = "Goodbye" -> GOODBYE_SIGNATURE
      [] name = "RunWithMetadata" -> RUN_WITH_METADATA_SIGNATURE
      [] name = "Begin" -> BEGIN_SIGNATURE
      [] name = "Commit" -> COMMIT_SIGNATURE
      [] name = "Rollback" -> ROLLBACK_SIGNATURE
      [] name = "Discard" -> DISCARD_SIGNATURE
      [] name = "Pull" -> PULL_SIGNATURE

\* The types of the fields of each variant, in order.
FieldTypes(name) ==
    CASE name = "Init" -> << "String", "Map" >>
      [] name = "Run" -> << "String", "Map" >>
      [] name = "RunWithMetadata" -> << "String", "Map", "Map" >>
      [] name = "Record" -> << "List" >>
      [] name \in {"Success", "Failure", "Hello", "Begin", "Discard", "Pull"} ->
            << "Map" >>
      [] OTHER -> << >>

Msg(name, fields) == [msg |-> name, val |-> fields]

\* A get_marker that announces one field whatever the variant has.
GetMarkerOneField(m) == STRUCT_MARKER_TINY + 1

\* Marker::get_marker of a message: the tiny structure marker with the
\* number of fields.
GetMarker(m) == STRUCT_MARKER_TINY + Len(m.val)

\* An encoder that writes the signature before the marker.
TryIntoBytesSignatureFirst(m) ==
    << GetSignature(m.msg), GetMarker(m) >> \o EncodeList(m.val)

\* TryInto<Bytes> for Message: marker, signature, then the fields.
TryIntoBytes(m) ==
    << GetMarker(m), GetSignature(m.msg) >> \o EncodeList(m.val)

\* get_info_from_bytes: reads the marker and the signature off the cursor.
GetInfoFromBytes(b) ==
    IF Len(b) < 2 THEN Unwinding(<<>>)
    ELSE Ok(<< b[1], b[2] >>, Drop(b, 2))

\* <Variant>::try_from on the cursor after the marker and the signature: the
\* fields of the variant decoded in order, each converted to its type.
RECURSIVE DecodeFields(_, _, _)
DecodeFields(b, types, acc) ==
    IF types = <<>> THEN Ok(acc, b)
    ELSE Only({ IF ~r.ok THEN r
                ELSE IF r.val.tag # Head(ts) THEN Err("Conversion", r.rest)
                ELSE DecodeFields(r.rest, Tail(ts), Append(a, r.val)) :
                r \in { ValueTryFrom(b) }, ts \in {types}, a \in {acc} })

VariantTryFrom(name, b) ==
    Only({ IF r.ok THEN Ok(Msg(name, r.val), r.rest) ELSE r :
           r \in { DecodeFields(b, FieldTypes(name), <<>>) } })

\* A Message::try_from that takes the first variant of a shared signature
\* whatever the marker says.
MessageTryFromFirstVariant(b) ==
    LET info == GetInfoFromBytes(b)
    IN  IF ~info.ok THEN info
        ELSE IF info.val[2] = INIT_SIGNATURE THEN VariantTryFrom("Init", info.rest)
        ELSE IF info.val[2] = RUN_SIGNATURE THEN VariantTryFrom("Run", info.rest)
        ELSE IF info.val[2] = DISCARD_ALL_SIGNATURE
             THEN Ok(Msg("DiscardAll", <<>>), info.rest)
        ELSE IF info.val[2] = PULL_ALL_SIGNATURE
             THEN Ok(Msg("PullAll", <<>>), info.rest)
        ELSE Err("InvalidSignatureByte", info.rest)

\* The closure of Message::try_from: the match on the signature, the arms
\* in the order of the source.
MessageTryFromInner(b) ==
    LET info == GetInfoFromBytes(b)
    IN  IF ~info.ok THEN info
        ELSE LET mk == info.val[1]
                 signature == info.val[2]
                 rest == info.rest
             IN  IF signature = INIT_SIGNATURE
                 THEN IF mk = INIT_MARKER THEN VariantTryFrom("Init", rest)
                      ELSE VariantTryFrom("Hello", rest)
                 ELSE IF signature = RUN_SIGNATURE
                 THEN IF mk = RUN_MARKER THEN VariantTryFrom("Run", rest)
                      ELSE VariantTryFrom("RunWithMetadata", rest)
                 ELSE IF signature = DISCARD_ALL_SIGNATURE
                 THEN IF mk = DISCARD_ALL_MARKER THEN Ok(Msg("DiscardAll", <<>>), rest)
                      ELSE VariantTryFrom("Discard", rest)
                 ELSE IF signature = PULL_ALL_SIGNATURE
                 THEN IF mk = PULL_ALL_MARKER THEN Ok(Msg("PullAll", <<>>), rest)
                      ELSE VariantTryFrom("Pull", rest)
                 ELSE IF signature = ACK_FAILURE_SIGNATURE
                 THEN Ok(Msg("AckFailure", <<>>), rest)
                 ELSE IF signature = RESET_SIGNATURE
                 THEN Ok(Msg("Reset", <<>>), rest)
                 ELSE IF signature = RECORD_SIGNATURE
                 THEN VariantTryFrom("Record", rest)
                 ELSE IF signature = SUCCESS_SIGNATURE
                 THEN VariantTryFrom("Success", rest)
                 ELSE IF signature = FAILURE_SIGNATURE
                 THEN VariantTryFrom("Failure", rest)
                 ELSE IF signature = IGNORED_SIGNATURE
                 THEN Ok(Msg("Ignored", <<>>), rest)
                 ELSE IF signature = GOODBYE_SIGNATURE
                 THEN Ok(Msg("Goodbye", <<>>), rest)
                 ELSE IF signature = BEGIN_SIGNATURE
                 THEN VariantTryFrom("Begin", rest)
                 ELSE IF signature = COMMIT_SIGNATURE
                 THEN Ok(Msg("Commit", <<>>), rest)
                 ELSE IF signature = ROLLBACK_SIGNATURE
                 THEN Ok(Msg("Rollback", <<>>), rest)
                 ELSE Err("InvalidSignatureByte", rest)

\* Message::try_from: the closure under catch_unwind; a panic comes back as
\* DeserializationError::Panicked.
MessageTryFrom(b) ==
    Only({ CatchUnwind(MessageTryFromInner(input_arc)) : input_arc \in {b} })

----------------------------------------------------------------------------
(* The chunked framer: TryInto<Vec<Bytes>> for Message and                 *)
(* Message::from_stream, over one byte pipe.                               *)

\* mem::size_of::<u16>()
SizeOfU16 == 2

\* const CHUNK_SIZE: usize = 16383 - mem::size_of::<u16>();
CHUNK_SIZE == 16383 - SizeOfU16

\* slice::chunks(size): consecutive slices of size bytes, the last one
\* shorter when size does not divide the length; none for an empty slice.
Chunks(b, size) ==
    [i \in 1..((Len(b) + size - 1) \div size) |->
        SubSeq(b, (i - 1) * size + 1, Min(i * size, Len(b)))]

\* A chunk whose header counts its own two bytes.
ChunkLenWithHeader(slice) == PutU16(AsU16(Len(slice) + 2)) \o slice

\* One chunk on the wire: put_u16(slice.len() as u16), then put(slice).
Chunk(slice) == PutU16(AsU16(Len(slice))) \o slice

\* Bytes::from_static(&[0, 0]), the end of a message.
EndMarker == << 0, 0 >>

\* The chunk list of an encoded message body.
FrameBody(body) ==
    LET slices == Chunks(body, CHUNK_SIZE)
    IN  [i \in 1..Len(slices) |-> Chunk(slices[i])] \o << EndMarker >>

\* TryInto<Vec<Bytes>> for Message.
TryIntoVecBytes(m) == FrameBody(TryIntoBytes(m))

\* All the bytes of a chunk list, in order.
RECURSIVE Flatten(_)
Flatten(chunks) ==
    IF chunks = <<>> THEN <<>> ELSE Head(chunks) \o Flatten(Tail(chunks))

\* What from_stream returns: Result<Message>.
OkMessage(m) == [err |-> "none", ok |-> TRUE, val |-> m]
ErrMessage(e) == [err |-> e, ok |-> FALSE, val |-> Msg("None", <<>>)]
ToResult(r) == IF r.ok THEN OkMessage(r.val) ELSE ErrMessage(r.err)

(* Bounds of the framer's runs. *)
MaxMsgs == 2        \* messages on one stream, and from_stream calls
MaxChunks == 2      \* the largest message fills this many whole chunks
MaxPieces == 4      \* chunks of a hand-split body

\* ASCII strings used by the messages below.
StrMyClient == << \h4D, \h79, \h43, \h6C, \h69, \h65, \h6E, \h74, \h2F, \h31, \h2E, \h30 >>
StrScheme == << \h73, \h63, \h68, \h65, \h6D, \h65 >>
StrBasic == << \h62, \h61, \h73, \h69, \h63 >>
StrN == << \h6E >>
StrReturn1 == << \h52, \h45, \h54, \h55, \h52, \h4E, \h20, \h31 >>

AuthToken == MapV([k \in {StrScheme} |-> StrV(StrBasic)])

\* One message of each of the 18 variants.
SmallMsgs ==
    { Msg("Init", << StrV(StrMyClient), AuthToken >>),
      Msg("Run", << StrV(StrReturn1), EmptyMap >>),
      Msg("DiscardAll", <<>>),
      Msg("PullAll", <<>>),
      Msg("AckFailure", <<>>),
      Msg("Reset", <<>>),
      Msg("Record", << ListV(<< IntV(1), StrV(StrN), NullV, BoolV(TRUE), IntV(-300) >>) >>),
      Msg("Success", << EmptyMap >>),
      Msg("Failure", << AuthToken >>),
      Msg("Ignored", <<>>),
      Msg("Hello", << AuthToken >>),
      Msg("Goodbye", <<>>),
      Msg("RunWithMetadata", << StrV(StrReturn1), EmptyMap, AuthToken >>),
      Msg("Begin", << EmptyMap >>),
      Msg("Commit", <<>>),
      Msg("Rollback", <<>>),
      Msg("Discard", << MapV([k \in {StrN} |-> IntV(-1)]) >>),
      Msg("Pull", << MapV([k \in {StrN} |-> IntV(1000)]) >>) }

\* A Run whose encoded body has exactly size bytes (256 + 6 <= size <=
\* 65535 + 6): B2 10, D1 and a u16 length, the statement, A0.
RunOfSize(size) == Msg("Run", << StrV(Repeat(\h61, size - 6)), EmptyMap >>)

\* Messages around the chunk boundaries: one byte less than k whole chunks,
\* exactly k whole chunks, one byte more.
BigMsgs ==
    { RunOfSize(k * CHUNK_SIZE + d) : k \in 1..MaxChunks, d \in {-1, 0, 1} }

Msgs == SmallMsgs \cup BigMsgs

\* The messages a stream of several messages carries.
StreamMsgs ==
    { Msg("AckFailure", <<>>),
      Msg("Init", << StrV(StrMyClient), AuthToken >>),
      Msg("Pull", << MapV([k \in {StrN} |-> IntV(1000)]) >>),
      RunOfSize(CHUNK_SIZE + 1) }

\* The largest length a chunk header can carry.
U16_MAX == 2 ^ 16 - 1

\* A Run whose encoded body has size bytes, size > 65535 + 6: the statement
\* takes the D2 form with a u32 length.
LargeRunOfSize(size) == Msg("Run", << StrV(Repeat(\h61, size - 8)), EmptyMap >>)

\* Bodies framed by hand: encoded messages, and bodies the message decoder
\* rejects (an unknown signature, a truncated field, a marker alone).
SplitBodies ==
    { TryIntoBytes(Msg("AckFailure", <<>>)),
      TryIntoBytes(Msg("Success", << EmptyMap >>)),
      TryIntoBytes(Msg("Init", << StrV(StrMyClient), AuthToken >>)),
      TryIntoBytes(RunOfSize(CHUNK_SIZE + 1)),
      TryIntoBytes(LargeRunOfSize(U16_MAX + 9)),
      << STRUCT_MARKER_TINY, \hFF >>,
      << STRUCT_MARKER_TINY + 2, INIT_SIGNATURE, STRING_MARKER_TINY + 3, \h61 >>,
      << STRUCT_MARKER_TINY + 1 >> }

\* Every way to write n >= 1 as a sequence of positive lengths.
RECURSIVE Compositions(_)
Compositions(n) ==
    IF n = 0 THEN { <<>> }
    ELSE UNION { { << k >> \o c : c \in Compositions(n - k) } : k \in 1..n }

\* n split into pieces of c bytes, the last one shorter.
Uniform(n, c) == [i \in 1..((n + c - 1) \div c) |-> Min(c, n - (i - 1) * c)]

\* The splits of a body of n bytes the writer tries: chunks of 1..65535
\* bytes, at most MaxPieces of them; every split of a body of at most
\* MaxPieces bytes, and for a longer one the even splits, the splits into
\* chunks of CHUNK_SIZE and of 65535 bytes, and a first or last chunk of one
\* byte or of 65535 bytes.
Splits(n) ==
    LET even == { Uniform(n, (n + k - 1) \div k) : k \in 1..MaxPieces }
        byCap == { Uniform(n, c) : c \in {CHUNK_SIZE, U16_MAX} }
        two == { << p, n - p >> : p \in {1, n - 1, U16_MAX, n - U16_MAX} \cap 1..(n - 1) }
        all == IF n <= MaxPieces THEN Compositions(n) ELSE {}
    IN  { sp \in even \cup byCap \cup two \cup all :
            /\ Len(sp) <= MaxPieces
            /\ \A i \in 1..Len(sp) : sp[i] >= 1 /\ sp[i] <= U16_MAX }

\* The chunk list of body cut as split says, and the end marker.
RECURSIVE FrameSplit(_, _)
FrameSplit(body, split) ==
    IF split = <<>> THEN << EndMarker >>
    ELSE << Chunk(Take(body, Head(split))) >>
         \o FrameSplit(Drop(body, Head(split)), Tail(split))

NoMsg == Msg("None", <<>>)

InitFramer ==
    /\ sent = <<>>
    /\ framed = <<>>
    /\ pending = <<>>
    /\ wire = <<>>
    /\ closed = FALSE
    /\ rpc = "idle"
    /\ bytes = <<>>
    /\ chunk_len = 0
    /\ taken = 0
    /\ results = <<>>
    /\ used = <<>>

\* The writer turns message m into its chunk list (TryInto<Vec<Bytes>>).
Send(m) ==
    /\ ~closed
    /\ pending = <<>>
    /\ sent' = Append(sent, [body |-> <<>>, msg |-> m])
    /\ framed' = TryIntoVecBytes(m)
    /\ pending' = framed'
    /\ UNCHANGED <<wire, closed, rpc, bytes, chunk_len, taken, results, used>>
    /\ UNCHANGED <<decode_vars, client_vars, cursor_vars>>

\* A writer that frames body by hand, cut as split says.
SendSplit(body, split) ==
    /\ ~closed
    /\ pending = <<>>
    /\ sent' = Append(sent, [body |-> body, msg |-> NoMsg])
    /\ framed' = FrameSplit(body, split)
    /\ pending' = framed'
    /\ UNCHANGED <<wire, closed, rpc, bytes, chunk_len, taken, results, used>>
    /\ UNCHANGED <<decode_vars, client_vars, cursor_vars>>

\* The writer writes the next chunk of the list to the pipe.
WriteChunk ==
    /\ ~closed
    /\ pending # <<>>
    /\ wire' = wire \o Head(pending)
    /\ pending' = Tail(pending)
    /\ UNCHANGED <<sent, framed, closed, rpc, bytes, chunk_len, taken, results, used>>
    /\ UNCHANGED <<decode_vars, client_vars, cursor_vars>>

\* The writing end goes away: what was not written never arrives.
WriterClose ==
    /\ ~closed
    /\ closed' = TRUE
    /\ UNCHANGED <<sent, framed, pending, wire, rpc, bytes, chunk_len, taken, results, used>>
    /\ UNCHANGED <<decode_vars, client_vars, cursor_vars>>

\* A from_stream that keeps one accumulator across its calls.
FromStreamCallKeepsBytes ==
    /\ rpc = "idle"
    /\ Len(results) < MaxMsgs
    /\ rpc' = "read_len"
    /\ chunk_len' = 0
    /\ taken' = 0
    /\ UNCHANGED <<sent, framed, pending, wire, closed, bytes, results, used>>
    /\ UNCHANGED <<decode_vars, client_vars, cursor_vars>>

\* from_stream is called: let mut bytes = BytesMut::new().
FromStreamCall ==
    /\ rpc = "idle"
    /\ Len(results) < MaxMsgs
    /\ rpc' = "read_len"
    /\ bytes' = <<>>
    /\ chunk_len' = 0
    /\ taken' = 0
    /\ UNCHANGED <<sent, framed, pending, wire, closed, results, used>>
    /\ UNCHANGED <<decode_vars, client_vars, cursor_vars>>

\* A from_stream whose loop ends at the first chunk shorter than CHUNK_SIZE.
ReadU16StopsAtShortChunk ==
    /\ rpc = "read_len"
    /\ Len(wire) >= SizeOfU16
    /\ chunk_len' = GetU16(wire)
    /\ wire' = Drop(wire, SizeOfU16)
    /\ taken' = taken + SizeOfU16
    /\ IF chunk_len' > 0 /\ ~(bytes # <<>> /\ Len(bytes) % CHUNK_SIZE # 0)
       THEN /\ rpc' = "read_chunk"
            /\ UNCHANGED <<bytes, results, used>>
       ELSE /\ rpc' = "idle"
            /\ results' = Append(results, ToResult(MessageTryFrom(bytes)))
            /\ used' = Append(used, taken')
            /\ UNCHANGED bytes
    /\ UNCHANGED <<sent, framed, pending, closed>>
    /\ UNCHANGED <<decode_vars, client_vars, cursor_vars>>

\* buf_stream.read_u16().await completes; a chunk_len of 0 ends the loop and
\* the accumulator goes to Message::try_from.
ReadU16 ==
    /\ rpc = "read_len"
    /\ Len(wire) >= SizeOfU16
    /\ chunk_len' = GetU16(wire)
    /\ wire' = Drop(wire, SizeOfU16)
    /\ taken' = taken + SizeOfU16
    /\ IF chunk_len' > 0
       THEN /\ rpc' = "read_chunk"
            /\ UNCHANGED <<bytes, results, used>>
       ELSE /\ rpc' = "idle"
            /\ results' = Append(results, ToResult(MessageTryFrom(bytes)))
            /\ used' = Append(used, taken')
            /\ UNCHANGED bytes
    /\ UNCHANGED <<sent, framed, pending, closed>>
    /\ UNCHANGED <<decode_vars, client_vars, cursor_vars>>

\* A read_exact whose last byte does not reach the accumulator.
ReadExactDropsLastByte ==
    /\ rpc = "read_chunk"
    /\ Len(wire) >= chunk_len
    /\ bytes' = bytes \o Take(wire, chunk_len - 1)
    /\ wire' = Drop(wire, chunk_len)
    /\ taken' = taken + chunk_len
    /\ rpc' = "read_len"
    /\ UNCHANGED <<sent, framed, pending, closed, chunk_len, results, used>>
    /\ UNCHANGED <<decode_vars, client_vars, cursor_vars>>

\* buf_stream.read_exact(&mut buf).await completes; bytes.put_slice(&buf).
ReadExact ==
    /\ rpc = "read_chunk"
    /\ Len(wire) >= chunk_len
    /\ bytes' = bytes \o Take(wire, chunk_len)
    /\ wire' = Drop(wire, chunk_len)
    /\ taken' = taken + chunk_len
    /\ rpc' = "read_len"
    /\ UNCHANGED <<sent, framed, pending, closed, chunk_len, results, used>>
    /\ UNCHANGED <<decode_vars, client_vars, cursor_vars>>

\* A from_stream that, when a read meets the end of the stream, hands what
\* it has accumulated so far to Message::try_from.
ReadFailsDecodesPartial ==
    /\ closed
    /\ \/ rpc = "read_len" /\ Len(wire) < SizeOfU16
       \/ rpc = "read_chunk" /\ Len(wire) < chunk_len
    /\ results' = Append(results, ToResult(MessageTryFrom(bytes)))
    /\ used' = Append(used, taken + Len(wire))
    /\ wire' = <<>>
    /\ rpc' = "idle"
    /\ UNCHANGED <<sent, framed, pending, closed, bytes, chunk_len, taken>>
    /\ UNCHANGED <<decode_vars, client_vars, cursor_vars>>

\* A read meets the end of the stream before it has its bytes: the `?`
\* returns the I/O error.
ReadFails ==
    /\ closed
    /\ \/ rpc = "read_len" /\ Len(wire) < SizeOfU16
       \/ rpc = "read_chunk" /\ Len(wire) < chunk_len
    /\ results' = Append(results, ErrMessage("Io"))
    /\ used' = Append(used, taken + Len(wire))
    /\ wire' = <<>>
    /\ rpc' = "idle"
    /\ UNCHANGED <<sent, framed, pending, closed, bytes, chunk_len, taken>>
    /\ UNCHANGED <<decode_vars, client_vars, cursor_vars>>

----------------------------------------------------------------------------
(* Message::try_from applied to one buffer. *)

MaxFields == 4      \* the field counts 0..MaxFields a marker announces

\* The result before the call returned.
Pending == ErrMessage("pending")

\* Field lists that follow the marker and the signature in a buffer.
FieldLists ==
    { <<>>,
      << EmptyMap >>,
      << AuthToken >>,
      << StrV(StrN), EmptyMap >>,
      << StrV(StrMyClient), AuthToken >>,
      << StrV(StrN), EmptyMap, AuthToken >>,
      << ListV(<< IntV(1), NullV >>) >>,
      << IntV(1) >> }

\* Signature bytes tried: those of the 18 messages, and bytes no message has
\* (0x4E is the signature of the Node value).
DecodeSignatures ==
    { GetSignature(name) : name \in MessageNames }
        \cup { \h00, \h03, NODE_SIGNATURE, \hFF }

\* The buffers handed to Message::try_from: a tiny structure marker with
\* every field count 0..MaxFields, every signature, every field list; and
\* the buffers too short to hold a marker and a signature.
DecodeInputs ==
    { << STRUCT_MARKER_TINY + n, sig >> \o EncodeList(fs) :
          n \in 0..MaxFields, sig \in DecodeSignatures, fs \in FieldLists }
        \cup { <<>>, << STRUCT_MARKER_TINY >> }

InitDecode == input \in DecodeInputs /\ output = Pending
InitDecodeIdle == input = <<>> /\ output = Pending

\* Message::try_from(Arc::new(Mutex::new(input))) is called and returns.
Decode ==
    /\ output = Pending
    /\ output' = ToResult(MessageTryFrom(input))
    /\ UNCHANGED input
    /\ UNCHANGED <<framer_vars, client_vars, cursor_vars>>

----------------------------------------------------------------------------
(* The client (rust-bolt/src/client.rs): a TcpStream, handshake() and      *)
(* init(), called by the owner of the Client in any order; the server is   *)
(* the other end of the stream.                                            *)

MaxCalls == 2       \* calls of handshake() and init() on one Client

\* const PREAMBLE: [u8; 4] = [0x60, 0x60, 0xB0, 0x17];
PREAMBLE == << \h60, \h60, \hB0, \h17 >>

\* const SUPPORTED_VERSIONS: [u32; 4] = [1, 0, 0, 0];
SUPPORTED_VERSIONS == << 1, 0, 0, 0 >>

\* allowed_versions after the for_each: put_u32 of each supported version.
AllowedVersions ==
    PutU32(SUPPORTED_VERSIONS[1]) \o PutU32(SUPPORTED_VERSIONS[2])
        \o PutU32(SUPPORTED_VERSIONS[3]) \o PutU32(SUPPORTED_VERSIONS[4])

\* What one write or write_buf call may take of a buffer of len bytes: the
\* call returns the number of bytes written, which the client drops; the
\* model tries one byte, all but one, and all of them.
WriteAmounts(len) == {1, len - 1, len} \cap 1..len

\* The server's answers to a handshake: no version, version 1, versions the
\* client did not propose.
Replies == { PutU32(0), PutU32(1), PutU32(2), PutU32(256) }

StrRustBolt == << \h72, \h75, \h73, \h74, \h2D, \h62, \h6F, \h6C, \h74, \h2F,
                  \h30, \h2E, \h31, \h2E, \h30 >>
StrPrincipal == << \h70, \h72, \h69, \h6E, \h63, \h69, \h70, \h61, \h6C >>
StrNeo4j == << \h6E, \h65, \h6F, \h34, \h6A >>
StrCredentials == << \h63, \h72, \h65, \h64, \h65, \h6E, \h74, \h69, \h61, \h6C, \h73 >>
StrInvalid == << \h69, \h6E, \h76, \h61, \h6C, \h69, \h64 >>

\* The Init of Client::init: Init::new("rust-bolt/0.1.0", {scheme: basic,
\* principal: neo4j, credentials: invalid}).
ClientInit ==
    Msg("Init",
        << StrV(StrRustBolt),
           MapV([k \in {StrScheme, StrPrincipal, StrCredentials} |->
                    IF k = StrScheme THEN StrV(StrBasic)
                    ELSE IF k = StrPrincipal THEN StrV(StrNeo4j)
                    ELSE StrV(StrInvalid)]) >>)

\* The bytes init() hands to write_buf: the message of one chunk.
ClientInitBytes == Flatten(FrameBody(TryIntoBytes(ClientInit)))

\* What the server sends back to an Init before it closes: a Failure.
ServerResponse == Flatten(FrameBody(TryIntoBytes(Msg("Failure", << AuthToken >>))))

\* One entry of the client's I/O log.
Ev(op, data) == [data |-> data, op |-> op]

\* The calls made on the Client so far.
NumCalls == Cardinality({ i \in DOMAIN log : log[i].op \in {"handshake", "init"} })

InitClient ==
    /\ cpc = "idle"
    /\ sock_out = <<>>
    /\ sock_in = <<>>
    /\ peer_closed = FALSE
    /\ log = <<>>
    /\ hs = <<>>

\* The owner calls handshake(); allowed_versions is filled.
CallHandshake ==
    /\ cpc = "idle"
    /\ NumCalls < MaxCalls
    /\ cpc' = "hs_preamble"
    /\ log' = Append(log, Ev("handshake", <<>>))
    /\ UNCHANGED <<sock_out, sock_in, peer_closed, hs>>
    /\ UNCHANGED <<framer_vars, decode_vars, cursor_vars>>

\* self.stream.write(&PREAMBLE).await?: the stream takes n of the 4 bytes.
HsWritePreamble ==
    /\ cpc = "hs_preamble"
    /\ \E n \in WriteAmounts(Len(PREAMBLE)) :
          /\ sock_out' = sock_out \o Take(PREAMBLE, n)
          /\ log' = Append(log, Ev("write", Take(PREAMBLE, n)))
    /\ cpc' = "hs_versions"
    /\ UNCHANGED <<sock_in, peer_closed, hs>>
    /\ UNCHANGED <<framer_vars, decode_vars, cursor_vars>>

\* self.stream.write_buf(&mut allowed_versions).await?: the stream takes n
\* of the 16 bytes.
HsWriteVersions ==
    /\ cpc = "hs_versions"
    /\ \E n \in WriteAmounts(Len(AllowedVersions)) :
          /\ sock_out' = sock_out \o Take(AllowedVersions, n)
          /\ log' = Append(log, Ev("write", Take(AllowedVersions, n)))
    /\ cpc' = "hs_flush"
    /\ UNCHANGED <<sock_in, peer_closed, hs>>
    /\ UNCHANGED <<framer_vars, decode_vars, cursor_vars>>

\* self.stream.flush().await?
HsFlush ==
    /\ cpc = "hs_flush"
    /\ cpc' = "hs_read"
    /\ log' = Append(log, Ev("flush", <<>>))
    /\ UNCHANGED <<sock_out, sock_in, peer_closed, hs>>
    /\ UNCHANGED <<framer_vars, decode_vars, cursor_vars>>

\* Ok(self.stream.read_u32().await?): four bytes arrive and the call returns
\* them as the version.
HsRead ==
    /\ cpc = "hs_read"
    /\ Len(sock_in) >= 4
    /\ hs' = Append(hs, [err |-> "none", ok |-> TRUE, reply |-> Take(sock_in, 4),
                         val |-> GetU32(sock_in)])
    /\ log' = Append(Append(log, Ev("read", Take(sock_in, 4))),
                     Ev("handshake_ok", << GetU32(sock_in) >>))
    /\ sock_in' = Drop(sock_in, 4)
    /\ cpc' = "idle"
    /\ UNCHANGED <<sock_out, peer_closed>>
    /\ UNCHANGED <<framer_vars, decode_vars, cursor_vars>>

\* An await of handshake() fails on the closed connection (a write, the
\* flush, or the read that has not its four bytes): the `?` returns the
\* error.
HsIoError ==
    /\ peer_closed
    /\ \/ cpc \in {"hs_preamble", "hs_versions", "hs_flush"}
       \/ cpc = "hs_read" /\ Len(sock_in) < 4
    /\ hs' = Append(hs, [err |-> "Io", ok |-> FALSE, reply |-> <<>>, val |-> 0])
    /\ log' = Append(log, Ev("handshake_err", <<>>))
    /\ sock_in' = IF cpc = "hs_read" THEN <<>> ELSE sock_in
    /\ cpc' = "idle"
    /\ UNCHANGED <<sock_out, peer_closed>>
    /\ UNCHANGED <<framer_vars, decode_vars, cursor_vars>>

\* The owner calls init(); the Init message is built and framed.
CallInit ==
    /\ cpc = "idle"
    /\ NumCalls < MaxCalls
    /\ cpc' = "init_write"
    /\ log' = Append(log, Ev("init", <<>>))
    /\ UNCHANGED <<sock_out, sock_in, peer_closed, hs>>
    /\ UNCHANGED <<framer_vars, decode_vars, cursor_vars>>

\* self.stream.write_buf(&mut bytes).await?
InitWrite ==
    /\ cpc = "init_write"
    /\ \E n \in WriteAmounts(Len(ClientInitBytes)) :
          /\ sock_out' = sock_out \o Take(ClientInitBytes, n)
          /\ log' = Append(log, Ev("write", Take(ClientInitBytes, n)))
    /\ cpc' = "init_flush"
    /\ UNCHANGED <<sock_in, peer_closed, hs>>
    /\ UNCHANGED <<framer_vars, decode_vars, cursor_vars>>

\* self.stream.flush().await?
InitFlush ==
    /\ cpc = "init_flush"
    /\ cpc' = "init_read"
    /\ log' = Append(log, Ev("flush", <<>>))
    /\ UNCHANGED <<sock_out, sock_in, peer_closed, hs>>
    /\ UNCHANGED <<framer_vars, decode_vars, cursor_vars>>

\* self.stream.read_to_end(&mut buf).await?: everything up to the end of the
\* stream; then Message::try_from(Bytes::from(buf)) and the return.
InitReadToEnd ==
    /\ cpc = "init_read"
    /\ peer_closed
    /\ log' = Append(Append(log, Ev("read", sock_in)), Ev("init_return", <<>>))
    /\ sock_in' = <<>>
    /\ cpc' = "idle"
    /\ UNCHANGED <<sock_out, peer_closed, hs>>
    /\ UNCHANGED <<framer_vars, decode_vars, cursor_vars>>

\* A write or the flush of init() fails on the closed connection.
InitIoError ==
    /\ peer_closed
    /\ cpc \in {"init_write", "init_flush"}
    /\ log' = Append(log, Ev("init_err", <<>>))
    /\ cpc' = "idle"
    /\ UNCHANGED <<sock_out, sock_in, peer_closed, hs>>
    /\ UNCHANGED <<framer_vars, decode_vars, cursor_vars>>

\* The server answers a handshake the client waits for.
ServerReply ==
    /\ cpc = "hs_read"
    /\ ~peer_closed
    /\ sock_in = <<>>
    /\ \E r \in Replies : sock_in' = r
    /\ UNCHANGED <<cpc, sock_out, peer_closed, log, hs>>
    /\ UNCHANGED <<framer_vars, decode_vars, cursor_vars>>

\* The server answers an Init the client waits for.
ServerRespond ==
    /\ cpc = "init_read"
    /\ ~peer_closed
    /\ sock_in = <<>>
    /\ sock_in' = ServerResponse
    /\ UNCHANGED <<cpc, sock_out, peer_closed, log, hs>>
    /\ UNCHANGED <<framer_vars, decode_vars, cursor_vars>>

\* The server closes the connection.
ServerClose ==
    /\ ~peer_closed
    /\ peer_closed' = TRUE
    /\ UNCHANGED <<cpc, sock_out, sock_in, log, hs>>
    /\ UNCHANGED <<framer_vars, decode_vars, cursor_vars>>

----------------------------------------------------------------------------
(* The shared cursor: one Value::try_from or Message::try_from call on an  *)
(* Arc<Mutex<Bytes>> of which another thread holds a clone.  Each          *)
(* input_arc.lock().unwrap() is a temporary: the guard lives to the end of *)
(* its statement, so one statement of the decoder is one step, taken when  *)
(* the mutex is free.                                                      *)

\* The cursors handed to a decode.
CursorInputs ==
    { << MARKER_NULL, MARKER_TRUE >>,
      << MARKER_FALSE >>,
      << \h01, \h02 >>,
      EncodeValue(IntV(1000)),
      EncodeValue(StrV(StrN)) \o << MARKER_NULL >>,
      EncodeValue(ListV(<< IntV(1), NullV >>)),
      EncodeValue(StructV(DATE_SIGNATURE, << IntV(1) >>)),
      << STRUCT_MARKER_TINY + 1, \hFF, MARKER_NULL >>,
      << \hC7, MARKER_NULL >>,
      TryIntoBytes(Msg("AckFailure", <<>>)),
      TryIntoBytes(Msg("Success", << EmptyMap >>)),
      TryIntoBytes(Msg("Pull", << EmptyMap >>)),
      TryIntoBytes(Msg("Run", << StrV(StrN), EmptyMap >>)) }

\* The positions of the decoder at which it has locked the cursor at least
\* once and will lock it again before it returns.
InsideDecode == {"value_peeked", "value_signature", "message_info"}

\* The arms of Value::try_from that advance past the marker themselves.
MarkerOnlyValue(m) ==
    \/ m \in {MARKER_NULL, MARKER_FALSE, MARKER_TRUE}
    \/ AsI8(m) >= -16 /\ AsI8(m) <= 127

\* The arms of Value::try_from that go to deserialize_structure.
StructureMarker(m) ==
    \/ m >= STRUCT_MARKER_TINY /\ m <= OrLowNibble(STRUCT_MARKER_TINY)
    \/ m \in {STRUCT_MARKER_SMALL, STRUCT_MARKER_MEDIUM}

\* The arm of Value::try_from a marker selects.
MarkerArm(m) ==
    IF MarkerOnlyValue(m) THEN "marker"
    ELSE IF m \in {MARKER_INT_8, MARKER_INT_16, MARKER_INT_32, MARKER_INT_64}
         THEN "Integer"
    ELSE IF m = MARKER_FLOAT THEN "Float"
    ELSE IF m \in {BYTES_MARKER_SMALL, BYTES_MARKER_MEDIUM, BYTES_MARKER_LARGE}
         THEN "ByteArray"
    ELSE IF \/ m >= STRING_MARKER_TINY /\ m <= OrLowNibble(STRING_MARKER_TINY)
            \/ m \in {STRING_MARKER_SMALL, STRING_MARKER_MEDIUM, STRING_MARKER_LARGE}
         THEN "String"
    ELSE IF \/ m >= LIST_MARKER_TINY /\ m <= OrLowNibble(LIST_MARKER_TINY)
            \/ m \in {LIST_MARKER_SMALL, LIST_MARKER_MEDIUM, LIST_MARKER_LARGE}
         THEN "List"
    ELSE IF \/ m >= MAP_MARKER_TINY /\ m <= OrLowNibble(MAP_MARKER_TINY)
            \/ m \in {MAP_MARKER_SMALL, MAP_MARKER_MEDIUM, MAP_MARKER_LARGE}
         THEN "Map"
    ELSE IF StructureMarker(m) THEN "Structure"
    ELSE "invalid"

\* <Type>::try_from(input_arc) of the arm the peeked marker m selected, on
\* the cursor b as it is when the typed decoder locks it: the typed decoder
\* reads the marker again and takes only a marker of its own type.
TypedTryFrom(m, b) ==
    IF b = <<>> THEN Unwinding(b)
    ELSE IF MarkerArm(b[1]) # MarkerArm(m) THEN Err("InvalidMarker", b)
    ELSE ValueTryFromInner(b)

\* The arms of Message::try_from that hand the cursor to a variant decoder.
ArmReadsFields(mk, sig) ==
    \/ sig \in {INIT_SIGNATURE, RUN_SIGNATURE, RECORD_SIGNATURE, SUCCESS_SIGNATURE,
                FAILURE_SIGNATURE, BEGIN_SIGNATURE}
    \/ sig = DISCARD_ALL_SIGNATURE /\ mk # DISCARD_ALL_MARKER
    \/ sig = PULL_ALL_SIGNATURE /\ mk # PULL_ALL_MARKER

NotReturned == Err("pending", <<>>)

InitCursor ==
    /\ cursor \in CursorInputs
    /\ lock = "none"
    /\ dpc \in {"value_start", "message_start"}
    /\ marker = 0
    /\ signature_read = 0
    /\ dres = NotReturned
    /\ intruded = FALSE

InitCursorIdle ==
    /\ cursor = <<>>
    /\ lock = "none"
    /\ dpc = "idle"
    /\ marker = 0
    /\ signature_read = 0
    /\ dres = NotReturned
    /\ intruded = FALSE

\* let marker = input_arc.lock().unwrap().clone().get_u8(); on an empty
\* cursor get_u8 panics.  A marker of no arm returns the error at once.
ValuePeek ==
    /\ dpc = "value_start"
    /\ lock = "none"
    /\ IF cursor = <<>>
       THEN /\ dres' = CatchUnwind(Unwinding(cursor))
            /\ dpc' = "done"
            /\ UNCHANGED marker
       ELSE /\ marker' = cursor[1]
            /\ IF MarkerArm(cursor[1]) = "invalid"
               THEN dres' = Err("InvalidMarker", cursor) /\ dpc' = "done"
               ELSE dpc' = "value_peeked" /\ UNCHANGED dres
    /\ UNCHANGED <<cursor, lock, signature_read, intruded>>
    /\ UNCHANGED <<framer_vars, decode_vars, client_vars>>

\* input_arc.lock().unwrap().advance(1) of the Null, Boolean and tiny int
\* arms, and the value made of the marker peeked before; advance(1) on an
\* empty cursor panics.
ValueAdvance ==
    /\ dpc = "value_peeked"
    /\ MarkerArm(marker) = "marker"
    /\ lock = "none"
    /\ IF cursor = <<>>
       THEN dres' = CatchUnwind(Unwinding(cursor)) /\ UNCHANGED cursor
       ELSE /\ cursor' = Drop(cursor, 1)
            /\ dres' = Ok(ValueTryFromInner(<< marker >>).val, cursor')
    /\ dpc' = "done"
    /\ UNCHANGED <<lock, marker, signature_read, intruded>>
    /\ UNCHANGED <<framer_vars, decode_vars, client_vars>>

\* Integer, Float, ByteArray, String, List, Map ::try_from(input_arc).
ValueTyped ==
    /\ dpc = "value_peeked"
    /\ MarkerArm(marker) \notin {"marker", "Structure"}
    /\ lock = "none"
    /\ dres' = CatchUnwind(TypedTryFrom(marker, cursor))
    /\ cursor' = dres'.rest
    /\ dpc' = "done"
    /\ UNCHANGED <<lock, marker, signature_read, intruded>>
    /\ UNCHANGED <<framer_vars, decode_vars, client_vars>>

\* deserialize_structure: get_signature_from_bytes(&mut *input_arc.lock()
\* .unwrap())?; a signature of no structure returns the error at once.
ValueSignature ==
    /\ dpc = "value_peeked"
    /\ MarkerArm(marker) = "Structure"
    /\ lock = "none"
    /\ LET s == GetSignatureFromBytes(cursor)
       IN  IF ~s.ok
           THEN /\ dres' = CatchUnwind(s)
                /\ cursor' = s.rest
                /\ dpc' = "done"
                /\ UNCHANGED signature_read
           ELSE /\ cursor' = s.rest
                /\ signature_read' = s.val.val
                /\ IF s.val.val \in ValueStructSignatures
                   THEN dpc' = "value_signature" /\ UNCHANGED dres
                   ELSE /\ dres' = Err("InvalidSignatureByte", s.rest)
                        /\ dpc' = "done"
    /\ UNCHANGED <<lock, marker, intruded>>
    /\ UNCHANGED <<framer_vars, decode_vars, client_vars>>

\* Node, Relationship, Path, UnboundRelationship, Date, Time
\* ::try_from(input_arc): the fields of the structure.
ValueStructure ==
    /\ dpc = "value_signature"
    /\ lock = "none"
    /\ LET r == DecodeItems(cursor, ValueStructFields(signature_read), <<>>)
       IN  /\ dres' = IF r.ok THEN Ok(StructV(signature_read, r.val), r.rest) ELSE r
           /\ cursor' = r.rest
    /\ dpc' = "done"
    /\ UNCHANGED <<lock, marker, signature_read, intruded>>
    /\ UNCHANGED <<framer_vars, decode_vars, client_vars>>

\* let (marker, signature) = get_info_from_bytes(input_arc.lock().unwrap()
\* .deref_mut())?; the arms that read no field return at once.
MessageInfo ==
    /\ dpc = "message_start"
    /\ lock = "none"
    /\ LET info == GetInfoFromBytes(cursor)
       IN  IF ~info.ok
           THEN /\ dres' = CatchUnwind(info)
                /\ cursor' = info.rest
                /\ dpc' = "done"
                /\ UNCHANGED <<marker, signature_read>>
           ELSE /\ cursor' = info.rest
                /\ marker' = info.val[1]
                /\ signature_read' = info.val[2]
                /\ IF ArmReadsFields(info.val[1], info.val[2])
                   THEN dpc' = "message_info" /\ UNCHANGED dres
                   ELSE /\ dres' = MessageTryFrom(Take(cursor, 2))
                        /\ dpc' = "done"
    /\ UNCHANGED <<lock, intruded>>
    /\ UNCHANGED <<framer_vars, decode_vars, client_vars>>

\* <Variant>::try_from(input_arc) of the arm selected by the marker and the
\* signature read before.
MessageVariant ==
    /\ dpc = "message_info"
    /\ lock = "none"
    /\ dres' = MessageTryFrom(<< marker, signature_read >> \o cursor)
    /\ cursor' = dres'.rest
    /\ dpc' = "done"
    /\ UNCHANGED <<lock, marker, signature_read, intruded>>
    /\ UNCHANGED <<framer_vars, decode_vars, client_vars>>

\* The other holder of the Arc: input_arc.lock().
OtherLock ==
    /\ lock = "none"
    /\ lock' = "other"
    /\ intruded' = (intruded \/ dpc \in InsideDecode)
    /\ UNCHANGED <<cursor, dpc, marker, signature_read, dres>>
    /\ UNCHANGED <<framer_vars, decode_vars, client_vars>>

\* The other holder, with the guard: advance(1).
OtherAdvance ==
    /\ lock = "other"
    /\ cursor # <<>>
    /\ cursor' = Drop(cursor, 1)
    /\ UNCHANGED <<lock, dpc, marker, signature_read, dres, intruded>>
    /\ UNCHANGED <<framer_vars, decode_vars, client_vars>>

\* The other holder drops the guard.
OtherUnlock ==
    /\ lock = "other"
    /\ lock' = "none"
    /\ UNCHANGED <<cursor, dpc, marker, signature_read, dres, intruded>>
    /\ UNCHANGED <<framer_vars, decode_vars, client_vars>>

----------------------------------------------------------------------------
(* Value::try_from and Message::try_from as one call each: the caller hands *)
(* in a cursor of which it keeps a clone of the Arc, nobody else touches    *)
(* it, and the call returns.  input is the buffer as it was handed in,      *)
(* cursor is the shared cursor, dres what the call returned.                *)

\* Sizes of the sized values sampled next to the thresholds of the length
\* prefixes (15 | 16, 255 | 256, 65535 | 65536).
TinyMax == 15
SmallMax == 255

\* The eight big-endian bytes of 2^31, -2^31 - 1, i64::MAX, i64::MIN and
\* 9_000_000_000_000_000_000.
WideIntegers ==
    { << 0, 0, 0, 0, \h80, 0, 0, 0 >>,
      << \hFF, \hFF, \hFF, \hFF, \h7F, \hFF, \hFF, \hFF >>,
      << \h7F, \hFF, \hFF, \hFF, \hFF, \hFF, \hFF, \hFF >>,
      << \h80, 0, 0, 0, 0, 0, 0, 0 >>,
      << \h7C, \hE6, \h6C, \h50, \hE2, \h84, 0, 0 >> }

\* Integers at both ends of the tiny, i8, i16 and i32 forms.
NarrowIntegers ==
    { -16, 0, 1, 110, 127, -17, -50, -128, 128, -129, 8000, -18621, 32767,
      -32768, 32768, -32769, -1000000000, 2147483647, -2147483647 - 1 }

\* std::f64::consts::PI and f64::MAX.
FloatSamples ==
    { << \h40, \h09, \h21, \hFB, \h54, \h44, \h2D, \h18 >>,
      << \h7F, \hEF, \hFF, \hFF, \hFF, \hFF, \hFF, \hFF >> }

\* The key of entry i of a sampled map, and a map of n entries.
KeyOf(i) == << \h61 + (i \div 26), \h61 + (i % 26) >>
MapOfSize(n) == MapV([k \in { KeyOf(i) : i \in 1..n } |-> IntV(k[2])])

\* The fields of the structure values.
StructSamples ==
    { StructV(NODE_SIGNATURE, << IntV(1), ListV(<< StrV(StrN) >>), AuthToken >>),
      StructV(RELATIONSHIP_SIGNATURE,
              << IntV(1), IntV(2), IntV(3), StrV(StrN), EmptyMap >>),
      StructV(PATH_SIGNATURE, << ListV(<<>>), ListV(<<>>), ListV(<< IntV(1) >>) >>),
      StructV(UNBOUND_RELATIONSHIP_SIGNATURE, << IntV(1), StrV(StrN), EmptyMap >>),
      StructV(DATE_SIGNATURE, << IntV(18000) >>),
      StructV(TIME_SIGNATURE, << IntV(1000), IntV(3600) >>) }

\* Values of every variant whose encoding has no length prefix of two or
\* four bytes.
SmallValues ==
    { NullV, BoolV(TRUE), BoolV(FALSE) }
        \cup { IntV(n) : n \in NarrowIntegers }
        \cup { Int64V(b8) : b8 \in WideIntegers }
        \cup { FloatV(f) : f \in FloatSamples }
        \cup { BytesV(Repeat(1, n)) : n \in {0, 1, TinyMax + 1, SmallMax} }
        \cup { StrV(Repeat(\h73, n)) : n \in {0, 1, TinyMax, TinyMax + 1, SmallMax} }
        \cup { ListV(Repeat(BoolV(FALSE), n)) : n \in {0, 1, TinyMax, TinyMax + 1} }
        \cup { ListV(<< IntV(1), StrV(StrN), ListV(<< NullV >>), AuthToken >>) }
        \cup { MapOfSize(n) : n \in {0, 1, 2, 3, TinyMax, TinyMax + 1} }
        \cup StructSamples

\* Values whose encoding carries a u16 or a u32 length prefix.
LargeValues ==
    { BytesV(Repeat(99, SmallMax + 1)), BytesV(Repeat(1, U16_MAX + 1)),
      StrV(Repeat(\h73, SmallMax + 1)), StrV(Repeat(\h73, U16_MAX + 1)),
      ListV(Repeat(BoolV(FALSE), SmallMax + 1)),
      MapOfSize(SmallMax + 1) }

\* The orders in which a HashMap iterator can yield the keys.
RECURSIVE KeyOrders(_)
KeyOrders(keys) ==
    IF keys = {} THEN { <<>> }
    ELSE UNION { { << k >> \o o : o \in KeyOrders(keys \ {k}) } : k \in keys }

\* The entries of a map written in a given order of its keys.
RECURSIVE EncodeEntriesInOrder(_, _)
EncodeEntriesInOrder(f, order) ==
    IF order = <<>> THEN <<>>
    ELSE IF Len(order) = 1
    THEN EncodeValue(StrV(order[1])) \o EncodeValue(f[order[1]])
    ELSE EncodeEntriesInOrder(f, Take(order, Len(order) \div 2))
         \o EncodeEntriesInOrder(f, Drop(order, Len(order) \div 2))

\* The orders of iteration tried for a map: all of them up to three keys,
\* beyond that the order in which MapOfSize numbers its keys.
OrdersTried(keys) ==
    IF Cardinality(keys) <= 3 THEN KeyOrders(keys)
    ELSE { [i \in 1..Cardinality(keys) |-> KeyOf(i)] }

\* The byte sequences TryInto<Bytes> can produce for a value: one, except
\* for a map, which has one for each order of iteration.
Encodings(v) ==
    IF v.tag = "Map"
    THEN { SizedHeader(MAP_MARKER_TINY, MAP_MARKER_SMALL, MAP_MARKER_MEDIUM,
                       MAP_MARKER_LARGE, Cardinality(DOMAIN v.val))
           \o EncodeEntriesInOrder(v.val, o) : o \in OrdersTried(DOMAIN v.val) }
    ELSE { EncodeValue(v) }

\* What follows a first byte in the buffers that try every marker.
MarkerTails ==
    { <<>>,
      << 1 >>,
      << DATE_SIGNATURE, 1, \h61, MARKER_NULL, 0, 0, 0, 0, 0 >> }

\* Every proper prefix of a byte sequence.
Prefixes(e) == { Take(e, n) : n \in 0..(Len(e) - 1) }

\* Buffers in which a nested value fails after others were read: a list and
\* a structure whose second item has no marker arm, a map whose key is no
\* String, a string that is not UTF-8.
NestedFailures ==
    { << LIST_MARKER_TINY + 2, MARKER_NULL, \hC4 >>,
      << STRUCT_MARKER_TINY + 2, TIME_SIGNATURE, 1, \hC4 >>,
      << MAP_MARKER_TINY + 1, MARKER_NULL, MARKER_NULL >>,
      << STRING_MARKER_TINY + 1, \hFF >>,
      << STRUCT_MARKER_TINY + 1, \hFF, MARKER_NULL >> }

\* Buffers that end before the value or the message they start is complete.
TruncatedValues == UNION { Prefixes(EncodeValue(v)) : v \in SmallValues }
TruncatedMessages == UNION { Prefixes(TryIntoBytes(m)) : m \in SmallMsgs }

\* The buffers handed to Value::try_from.
ValueInputs ==
    { << b >> \o t : b \in 0..255, t \in MarkerTails }
        \cup UNION { Encodings(v) : v \in SmallValues \cup LargeValues }
        \cup TruncatedValues
        \cup NestedFailures

\* The buffers handed to Message::try_from.
MessageInputs ==
    DecodeInputs
        \cup { TryIntoBytes(m) : m \in SmallMsgs }
        \cup TruncatedMessages

InitCodec ==
    /\ \/ dpc = "value_start" /\ input \in ValueInputs
       \/ dpc = "message_start" /\ input \in MessageInputs
    /\ output = Pending
    /\ cursor = input
    /\ lock = "none"
    /\ marker = 0
    /\ signature_read = 0
    /\ dres = NotReturned
    /\ intruded = FALSE

\* Value::try_from(Arc::clone(&cursor)) is called and returns.
ValueCall ==
    /\ dpc = "value_start"
    /\ dres' = ValueTryFrom(cursor)
    /\ cursor' = dres'.rest
    /\ dpc' = "value_returned"
    /\ UNCHANGED <<lock, marker, signature_read, intruded>>
    /\ UNCHANGED <<framer_vars, decode_vars, client_vars>>

\* Message::try_from(Arc::clone(&cursor)) is called and returns.
MessageCall ==
    /\ dpc = "message_start"
    /\ dres' = MessageTryFrom(cursor)
    /\ cursor' = dres'.rest
    /\ dpc' = "message_returned"
    /\ UNCHANGED <<lock, marker, signature_read, intruded>>
    /\ UNCHANGED <<framer_vars, decode_vars, client_vars>>

----------------------------------------------------------------------------
(* Specifications. *)

\* One message, or one hand-split body, through the framer.
FrameSendMessage ==
    /\ sent = <<>>
    /\ \E m \in Msgs : Send(m)
FrameSendSplit ==
    /\ sent = <<>>
    /\ \E b \in SplitBodies : \E sp \in Splits(Len(b)) : SendSplit(b, sp)
StreamSendMessage ==
    /\ Len(sent) < MaxMsgs
    /\ \E m \in StreamMsgs : Send(m)

Init == InitFramer /\ InitDecodeIdle /\ InitClient /\ InitCursorIdle

FrameNext ==
    \/ FrameSendMessage
    \/ FrameSendSplit
    \/ WriteChunk
    \/ WriterClose
    \/ FromStreamCall
    \/ ReadU16
    \/ ReadExact
    \/ ReadFails

SpecFrame == Init /\ [][FrameNext]_vars

StreamNext ==
    \/ StreamSendMessage
    \/ WriteChunk
    \/ WriterClose
    \/ FromStreamCall
    \/ ReadU16
    \/ ReadExact
    \/ ReadFails

SpecStream == Init /\ [][StreamNext]_vars

ClientNext ==
    \/ CallHandshake
    \/ HsWritePreamble
    \/ HsWriteVersions
    \/ HsFlush
    \/ HsRead
    \/ HsIoError
    \/ CallInit
    \/ InitWrite
    \/ InitFlush
    \/ InitReadToEnd
    \/ InitIoError
    \/ ServerReply
    \/ ServerRespond
    \/ ServerClose

SpecClient == Init /\ [][ClientNext]_vars

CursorInit == InitFramer /\ InitDecodeIdle /\ InitClient /\ InitCursor

CursorNext ==
    \/ ValuePeek
    \/ ValueAdvance
    \/ ValueTyped
    \/ ValueSignature
    \/ ValueStructure
    \/ MessageInfo
    \/ MessageVariant
    \/ OtherLock
    \/ OtherAdvance
    \/ OtherUnlock

SpecCursor == CursorInit /\ [][CursorNext]_vars

CodecInit == InitFramer /\ InitClient /\ InitCodec

CodecNext ==
    \/ ValueCall
    \/ MessageCall

SpecCodec == CodecInit /\ [][CodecNext]_vars

----------------------------------------------------------------------------
(* The framer's properties. *)

\* Message i of the stream was written to the pipe down to its end marker.
FullyWritten(i) == i < Len(sent) \/ (i = Len(sent) /\ pending = <<>>)

\* C1: framing round-trip.  A message turned into its chunk list and written
\* chunk by chunk to the pipe comes back from from_stream as Ok of the same
\* message (every variant, and bodies of one, two and three chunks); the
\* call fails, with the I/O error, only when the writer went away before the
\* end marker was written.
C1_FramingRoundTrip ==
    \A i \in 1..Len(results) :
        /\ (i <= Len(sent) /\ sent[i].msg # NoMsg /\ FullyWritten(i))
              => results[i] = OkMessage(sent[i].msg)
        /\ (i <= Len(sent) /\ sent[i].msg # NoMsg /\ ~results[i].ok)
              => (results[i].err = "Io" /\ closed /\ ~FullyWritten(i))

\* C1's case: a message of two data chunks, a whole one and one of a single
\* byte, and the end marker went through the pipe and from_stream returned
\* it.
C1_Witness ==
    /\ Len(results) >= 1
    /\ sent # <<>>
    /\ sent[1].msg # NoMsg
    /\ Len(framed) = 3
    /\ Len(framed[1]) = SizeOfU16 + CHUNK_SIZE
    /\ Len(framed[2]) = SizeOfU16 + 1
    /\ results[1] = OkMessage(sent[1].msg)

\* The bytes the framed form of a body of s bytes takes on the wire.
FramedLen(s) == s + SizeOfU16 * ((s + 16380) \div 16381) + SizeOfU16

\* The framed forms of messages i.. of the stream, as one byte string.
RECURSIVE FramesFrom(_)
FramesFrom(i) ==
    IF i > Len(sent) THEN <<>>
    ELSE Flatten(TryIntoVecBytes(sent[i].msg)) \o FramesFrom(i + 1)

\* C2: message boundaries.  On a stream of framed messages m1, m2, ... the
\* i-th from_stream call returns mi and consumes exactly the bytes of mi's
\* framed form; a call starts with an empty accumulator; and between calls
\* the unread stream starts at the next message's first chunk header.
C2_MessageBoundaries ==
    /\ \A i \in 1..Len(results) :
          results[i].err # "Io" =>
              /\ i <= Len(sent)
              /\ results[i] = OkMessage(sent[i].msg)
              /\ used[i] = FramedLen(Len(TryIntoBytes(sent[i].msg)))
    /\ (rpc = "read_len" /\ taken = 0) => bytes = <<>>
    /\ (rpc = "idle" /\ \A i \in 1..Len(results) : results[i].ok)
          => wire \o Flatten(pending) = FramesFrom(Len(results) + 1)

\* C2's case: two calls returned the two messages of the stream, an Init
\* and then an AckFailure, each call having taken the bytes of its message
\* and no more.
C2_Witness ==
    /\ Len(sent) >= 2
    /\ Len(results) >= 2
    /\ results[1] = OkMessage(sent[1].msg)
    /\ results[2] = OkMessage(sent[2].msg)
    /\ sent[1].msg.msg = "Init"
    /\ sent[2].msg.msg = "AckFailure"
    /\ used[1] = Len(Flatten(TryIntoVecBytes(sent[1].msg)))
    /\ used[2] = Len(Flatten(TryIntoVecBytes(sent[2].msg)))

\* C3: the shape of the chunk list.  A body of S bytes gives ceil(S/16381)
\* data chunks and then the end marker 00 00; data chunk i is the big-endian
\* u16 length of its payload and the payload B[i*16381 .. min((i+1)*16381,
\* S)], of 1..16381 bytes; AckFailure frames to 00 02 B0 0E 00 00.
C3_ChunkListShape ==
    (sent # <<>> /\ sent[Len(sent)].msg # NoMsg) =>
        LET B == TryIntoBytes(sent[Len(sent)].msg)
            S == Len(B)
            n == (S + 16380) \div 16381
        IN  /\ Len(framed) = n + 1
            /\ framed[n + 1] = << 0, 0 >>
            /\ \A i \in 1..n :
                  LET lo == (i - 1) * 16381
                      hi == IF i * 16381 < S THEN i * 16381 ELSE S
                  IN  /\ hi - lo >= 1 /\ hi - lo <= 16381
                      /\ Len(framed[i]) = 2 + (hi - lo)
                      /\ framed[i][1] * 256 + framed[i][2] = hi - lo
                      /\ SubSeq(framed[i], 3, Len(framed[i])) = SubSeq(B, lo + 1, hi)
            /\ sent[Len(sent)].msg = Msg("AckFailure", <<>>)
                  => Flatten(framed) = << 0, 2, \hB0, \h0E, 0, 0 >>

\* C3's case: a body one byte longer than a whole chunk was framed.
C3_Witness ==
    /\ sent # <<>>
    /\ sent[1].msg # NoMsg
    /\ Len(TryIntoBytes(sent[1].msg)) = 16382
    /\ Len(framed) = 3
    /\ Len(framed[2]) = 3

\* C4: decoding does not depend on the split.  A body cut into chunks of any
\* lengths in 1..65535 and ended by 00 00 comes back from from_stream as
\* what Message::try_from gives on the whole body, and while the call reads,
\* the accumulator is the part of the body that arrived, in order.
C4_SplitIndependent ==
    (sent # <<>> /\ sent[1].msg = NoMsg) =>
        /\ (Len(results) >= 1 /\ results[1].err # "Io")
              => results[1] = ToResult(MessageTryFrom(sent[1].body))
        /\ (rpc # "idle" /\ results = <<>>)
              => bytes = Take(sent[1].body, Len(bytes))
        /\ (Len(results) = 1 /\ rpc = "idle" /\ results[1].err # "Io")
              => bytes = sent[1].body

\* C4's case: the body of an Init went through with its marker alone in a
\* first chunk of one byte and the rest in a second chunk, and from_stream
\* returned the Init the whole body decodes to.
C4_Witness ==
    /\ sent # <<>>
    /\ sent[1].msg = NoMsg
    /\ Len(framed) = 3
    /\ Len(framed[1]) = SizeOfU16 + 1
    /\ Len(framed[2]) = SizeOfU16 + Len(sent[1].body) - 1
    /\ Len(results) >= 1
    /\ results[1].ok
    /\ results[1].val.msg = "Init"
    /\ results[1] = ToResult(MessageTryFrom(sent[1].body))

----------------------------------------------------------------------------
(* The message decoder's properties. *)

DecodeInit == InitFramer /\ InitDecode /\ InitClient /\ InitCursorIdle

SpecDecode == DecodeInit /\ [][Decode]_vars

\* The variants that share a signature: signature, field count, variant.
SharedSignatureTable ==
    { << \h01, 1, "Hello" >>, << \h01, 2, "Init" >>,
      << \h10, 2, "Run" >>, << \h10, 3, "RunWithMetadata" >>,
      << \h2F, 0, "DiscardAll" >>, << \h2F, 1, "Discard" >>,
      << \h3F, 0, "PullAll" >>, << \h3F, 1, "Pull" >> }

\* The field lists that are fields of variant name: as many as it has, each
\* of its type.
FieldsOf(name) ==
    { fs \in FieldLists :
        /\ Len(fs) = Len(FieldTypes(name))
        /\ \A i \in 1..Len(fs) : fs[i].tag = FieldTypes(name)[i] }

\* C5: the shared signatures are told apart by the field count N of the
\* marker.  A buffer B<N> <signature> <fields> whose (signature, N) is one of
\* (01,1) Hello, (01,2) Init, (10,2) Run, (10,3) RunWithMetadata, (2F,0)
\* DiscardAll, (2F,1) Discard, (3F,0) PullAll, (3F,1) Pull decodes to that
\* variant with those fields, and never to the variant it shares the
\* signature with.
C5_SharedSignatures ==
    output # Pending =>
        \A t \in SharedSignatureTable :
            (Len(input) >= 2 /\ input[1] = \hB0 + t[2] /\ input[2] = t[1]) =>
                /\ output.ok => output.val.msg = t[3]
                /\ \A fs \in FieldsOf(t[3]) :
                      SubSeq(input, 3, Len(input)) = EncodeList(fs)
                          => output = OkMessage(Msg(t[3], fs))

\* C5's case: B2 01 with a string and a map was decoded, to Init.
C5_Witness ==
    /\ Len(input) > 2
    /\ input[1] = \hB2
    /\ input[2] = \h01
    /\ output.ok
    /\ output.val.msg = "Init"
    /\ Len(output.val.val) = 2

\* The message table: the signature and the field count of each variant.
MessageTable ==
    { << GetSignature(name), Len(FieldTypes(name)) >> : name \in MessageNames }

\* C6 as claimed: a buffer whose (signature, N) is not in the message table
\* fails with InvalidSignature, whatever follows.
C6_UnknownPairRejected ==
    (/\ output # Pending
     /\ Len(input) >= 2
     /\ input[1] >= \hB0 /\ input[1] <= \hBF
     /\ << input[2], input[1] - \hB0 >> \notin MessageTable)
        => (~output.ok /\ output.err = "InvalidSignatureByte")

----------------------------------------------------------------------------
(* The client. *)

\* The versions the client proposes: the non-zero entries of the proposal.
Proposed == { SUPPORTED_VERSIONS[i] : i \in DOMAIN SUPPORTED_VERSIONS } \ {0}

\* The call an entry of the log belongs to: the last call event up to it.
CallStart(i) ==
    CHOOSE j \in 1..i :
        /\ log[j].op \in {"handshake", "init"}
        /\ \A k \in (j + 1)..i : log[k].op \notin {"handshake", "init"}

\* The bytes written by the entries j..i of the log, in order.
RECURSIVE Written(_, _)
Written(j, i) ==
    IF j > i THEN <<>>
    ELSE (IF log[j].op = "write" THEN log[j].data ELSE <<>>) \o Written(j + 1, i)

\* The 20 bytes of the handshake.
HandshakeBytes ==
    << \h60, \h60, \hB0, \h17, 0, 0, 0, 1, 0, 0, 0, 0, 0, 0, 0, 0, 0, 0, 0, 0 >>

\* C7: a handshake call that got its reply returns Ok(v) exactly when the
\* reply is a non-zero version v the client proposed; a reply of 0 and a
\* reply the client did not propose yield HandshakeRejected, never an Ok.
C7_HandshakeOutcome ==
    \A i \in DOMAIN hs :
        hs[i].err # "Io" =>
            IF GetU32(hs[i].reply) \in Proposed
            THEN hs[i].ok /\ hs[i].val = GetU32(hs[i].reply)
            ELSE ~hs[i].ok /\ hs[i].err = "HandshakeRejected"

\* C8: when a handshake call waits for the reply, and when it reads it, the
\* call has written exactly the 20 handshake bytes, in order, and flushed
\* last; the read takes exactly 4 bytes.
C8_HandshakeSendOrder ==
    /\ cpc = "hs_read" =>
          /\ Written(CallStart(Len(log)), Len(log)) = HandshakeBytes
          /\ log[Len(log)].op = "flush"
    /\ \A i \in DOMAIN log :
          (log[i].op = "read" /\ log[CallStart(i)].op = "handshake") =>
              /\ Written(CallStart(i), i) = HandshakeBytes
              /\ log[i - 1].op = "flush"
              /\ Len(log[i].data) = 4

\* C9: every byte an init call writes or reads comes after a handshake call
\* on the same connection that returned an accepted version.
C9_HandshakePrecedesMessages ==
    \A i \in DOMAIN log :
        (log[i].op \in {"write", "read"} /\ log[CallStart(i)].op = "init") =>
            \E j \in 1..CallStart(i) :
                log[j].op = "handshake_ok" /\ log[j].data[1] \in Proposed

----------------------------------------------------------------------------
(* The shared cursor. *)

\* C10: inside one Value::try_from or Message::try_from call, after its
\* first access to the cursor and before its last, no other holder of the
\* Arc has the mutex.
C10_ExclusiveCursor == dpc \in InsideDecode => lock # "other"

----------------------------------------------------------------------------
(* The codec's properties. *)

\* The call of SpecCodec has returned.
Returned == dpc \in {"value_returned", "message_returned"}

\* C11: no panic escapes the codec.  Whatever bytes Value::try_from or
\* Message::try_from is given, the call returns a result and never unwinds
\* to its caller; where the closure panics (it reads past the end of the
\* buffer, as on the empty accumulator from_stream hands over when the first
\* chunk length is 0) the result is the deserializer-panic error.
C11_NoPanicEscapes ==
    Returned =>
        /\ dres.err # "unwind"
        /\ (dpc = "value_returned" /\ ValueTryFromInner(input).err = "unwind"
                => ~dres.ok /\ dres.err = "Panicked")
        /\ (dpc = "message_returned" /\ MessageTryFromInner(input).err = "unwind"
                => ~dres.ok /\ dres.err = "Panicked")
        /\ (input = <<>> => ~dres.ok /\ dres.err = "Panicked")

\* Message::try_from returned on the empty accumulator, and Value::try_from
\* on a string cut short: in both the closure panicked.
C11_Witness ==
    /\ Returned
    /\ dres.err = "Panicked"
    /\ \/ dpc = "message_returned" /\ input = <<>>
       \/ dpc = "value_returned" /\ input = << STRING_MARKER_TINY + 1 >>

\* C12: short input is reported as UnexpectedEof.  When the buffer ends
\* before the value or the message is complete (empty at the marker peek,
\* or cut before the signature, the length prefix or the payload), the error
\* returned is of kind UnexpectedEof and of no other kind.
C12_ShortInputIsUnexpectedEof ==
    /\ (dpc = "value_returned" /\ input \in TruncatedValues
            => ~dres.ok /\ dres.err = "UnexpectedEof")
    /\ (dpc = "message_returned" /\ input \in TruncatedMessages
            => ~dres.ok /\ dres.err = "UnexpectedEof")

\* C13: message round-trip.  For a message of each of the 18 variants,
\* Message::try_from on the bytes its TryInto<Bytes> produced returns Ok of
\* the same message, with nothing left unread.
C13_MessageRoundTrip ==
    /\ { m.msg : m \in SmallMsgs } = MessageNames
    /\ \A m \in SmallMsgs :
          dpc = "message_returned" /\ input = TryIntoBytes(m)
              => dres = Ok(m, <<>>)

\* A RunWithMetadata (it shares its signature with Run) came back.
C13_Witness ==
    /\ dpc = "message_returned"
    /\ dres.ok
    /\ dres.val.msg = "RunWithMetadata"
    /\ input = TryIntoBytes(dres.val)

C15_Table(b) ==
    IF b = \hC0 THEN "Null"
    ELSE IF b \in {\hC2, \hC3} THEN "Boolean"
    ELSE IF b <= \h7F \/ b >= \hF0 THEN "Integer"
    ELSE IF b \in \hC8..\hCB THEN "Integer"
    ELSE IF b = \hC1 THEN "Float"
    ELSE IF b \in {\hCC, \hCD, \hCE} THEN "Bytes"
    ELSE IF b \in \h80..\h8F \cup {\hD0, \hD1, \hD2} THEN "String"
    ELSE IF b \in \h90..\h9F \cup {\hD4, \hD5, \hD6} THEN "List"
    ELSE IF b \in \hA0..\hAF \cup {\hD8, \hD9, \hDA} THEN "Map"
    ELSE IF b \in \hB0..\hBF \cup {\hDC, \hDD} THEN "Structure"
    ELSE "InvalidMarker"

\* C15: the marker dispatch of Value::try_from is a total, unambiguous
\* function of the first byte.  C0 is Null, C2 and C3 Boolean, a byte whose
\* signed value is in -16..127 the tiny Integer of that value, C8..CB
\* Integer, C1 Float, CC..CE Bytes, 80..8F and D0..D2 String, 90..9F and
\* D4..D6 List, A0..AF and D8..DA Map, B0..BF and DC, DD Structure; 80..BF
\* are never tiny ints; every other byte fails with InvalidMarker and leaves
\* the buffer as it was.
C15_MarkerDispatch ==
    dpc = "value_returned" /\ input # <<>> =>
        LET b == input[1]
        IN  /\ MarkerArm(b) # "invalid" <=> C15_Table(b) # "InvalidMarker"
            /\ C15_Table(b) = "InvalidMarker" => dres = Err("InvalidMarker", input)
            /\ dres.ok => dres.val.tag = C15_Table(b)
            /\ b = \hC0 => dres = Ok(NullV, Drop(input, 1))
            /\ b = \hC2 => dres = Ok(BoolV(FALSE), Drop(input, 1))
            /\ b = \hC3 => dres = Ok(BoolV(TRUE), Drop(input, 1))
            /\ b <= \h7F => dres = Ok(IntV(b), Drop(input, 1))
            /\ b >= \hF0 => dres = Ok(IntV(b - 256), Drop(input, 1))
            /\ b \in \h80..\hBF => ~(dres.ok /\ dres.val.tag = "Integer")
            /\ Len(input) = 1 /\ C15_Table(b) # "InvalidMarker"
                  => dres.err # "InvalidMarker"

\* The byte F0 came back as the tiny Integer -16, the byte 91 followed by a
\* value as a List, and the byte C4 as an invalid marker.
C15_Witness ==
    /\ dpc = "value_returned"
    /\ \/ input = << \hF0 >> /\ dres = Ok(IntV(-16), <<>>)
       \/ input = << \h91, 1 >> /\ dres = Ok(ListV(<< IntV(1) >>), <<>>)
       \/ input = << \hC4 >> /\ dres.err = "InvalidMarker"

\* C16: no caller-visible mutation on failure.  Whenever Value::try_from or
\* Message::try_from returns an error, the shared cursor the caller still
\* holds has the remaining bytes it had before the call.
C16_NoMutationOnFailure ==
    Returned /\ ~dres.ok => cursor = input

\* The signature the claim gives each message without fields.
C17_Table ==
    { << "AckFailure", \h0E >>, << "Reset", \h0F >>, << "Ignored", \h7E >>,
      << "Goodbye", \h02 >>, << "Commit", \h12 >>, << "Rollback", \h13 >>,
      << "DiscardAll", \h2F >>, << "PullAll", \h3F >> }

\* C17: zero-field messages have no body.  AckFailure, Reset, Ignored,
\* Goodbye, Commit, Rollback, DiscardAll and PullAll each encode to the two
\* bytes B0 and the signature; decoding B0 and the signature returns the
\* message and leaves what follows the signature unread, also when nothing
\* follows it.
C17_ZeroFieldMessages ==
    \A p \in C17_Table :
        /\ TryIntoBytes(Msg(p[1], <<>>)) = << \hB0, p[2] >>
        /\ (dpc = "message_returned" /\ Len(input) >= 2
                /\ input[1] = \hB0 /\ input[2] = p[2]
              => /\ dres = Ok(Msg(p[1], <<>>), Drop(input, 2))
                 /\ cursor = Drop(input, 2))

\* AckFailure came back from exactly B0 0E.
C17_Witness ==
    /\ dpc = "message_returned"
    /\ input = << \hB0, \h0E >>
    /\ input = TryIntoBytes(Msg("AckFailure", <<>>))
    /\ dres = Ok(Msg("AckFailure", <<>>), <<>>)

\* The bytes of the test of Init: client_name "MyClient/1.0", auth
\* {"scheme": "basic"}.
InitTestBytes ==
    << \hB2, \h01, \h8C, \h4D, \h79, \h43, \h6C, \h69, \h65, \h6E, \h74, \h2F,
       \h31, \h2E, \h30, \hA1, \h86, \h73, \h63, \h68, \h65, \h6D, \h65, \h85,
       \h62, \h61, \h73, \h69, \h63 >>

\* C18: the layout of an encoded Init.  B2, the signature 01, the client
\* name as a String (80 | length, then the bytes, for a length up to 15),
\* the auth token as a Map (A0 | entries, then each key and value); for
\* "MyClient/1.0" and {"scheme": "basic"} these are the bytes of the test.
C18_InitLayout ==
    /\ TryIntoBytes(Msg("Init", << StrV(StrMyClient), AuthToken >>)) = InitTestBytes
    /\ \A m \in SmallMsgs \cup { Msg("Init", << StrV(StrN), EmptyMap >>) } :
          m.msg = "Init" /\ input = TryIntoBytes(m)
              => LET name == m.val[1].val
                     auth == m.val[2].val
                     keys == DOMAIN auth
                 IN  Len(name) <= 15 /\ Cardinality(keys) <= 1
                       => input = << \hB2, \h01, \h80 + Len(name) >> \o name
                                  \o << \hA0 + Cardinality(keys) >>
                                  \o IF keys = {} THEN <<>>
                                     ELSE LET k == CHOOSE x \in keys : TRUE
                                          IN  << \h80 + Len(k) >> \o k
                                              \o << \h80 + Len(auth[k].val) >>
                                              \o auth[k].val

\* The Init of the test was encoded to the bytes of the test, and
\* Message::try_from gave the Init back from them.
C18_Witness ==
    /\ dpc = "message_returned"
    /\ input = InitTestBytes
    /\ dres = Ok(Msg("Init", << StrV(StrMyClient), AuthToken >>), <<>>)

----------------------------------------------------------------------------
(* Failure of the stream under from_stream. *)

\* The read from_stream is waiting in can no longer get its bytes: the
\* writing end is gone and the pipe holds fewer bytes than the read needs.
StarvedRead ==
    /\ closed
    /\ \/ rpc = "read_len" /\ Len(wire) < SizeOfU16
       \/ rpc = "read_chunk" /\ Len(wire) < chunk_len

====
